---- MODULE Spec2Model ----
(***************************************************************************)
(* Model of the transakt ledger engine: Currency (src/src/currency.rs),    *)
(* Account (src/src/account.rs), Transaction (src/src/transaction.rs) and  *)
(* Transakt::execute_transaction (src/src/lib.rs).                         *)
(*                                                                         *)
(* Currency.amount is a u64.  Its range is scaled down to 0..MaxAmount so  *)
(* that checked_add / checked_sub reach both of their outcomes.            *)
(***************************************************************************)
EXTENDS Integers, FiniteSets, Sequences, TLC

\* ------------------------------------------------------------------ bounds
\* Largest value of Currency.amount (u64::MAX, scaled down).
MaxAmount == 2
\* ClientId values 1..NumClients.
NumClients == 2
\* TransactionId values 1..NumTx.
NumTx == 2
\* Longest input file of read_from_csv, in rows.
MaxRows == 2
\* Width in bits of Currency.amount in the model of new, from_str and Display
\* (64 in the source, scaled down).
AmountBits == 14
\* Arguments unit of Currency::new: 0..MaxUnit.
MaxUnit == 2
\* Longest text before the point given to from_str, in chars.
MaxUnitLen == 2
\* Longest text after the point given to from_str, in chars.
MaxFracLen == 5

Clients == 1..NumClients
TxIds == 1..NumTx
Amounts == 0..MaxAmount

\* ------------------------------------------------------------------- Error
\* Result<(), Error>: Ok(()) and the variants of enum Error, as tuples so that
\* DuplicateTransaction can carry its TransactionId.
Ok == <<"Ok">>
TransactionParseError == <<"TransactionParseError">>
InsufficientHeldFunds == <<"InsufficientHeldFunds">>
DuplicateTransaction(tx) == <<"DuplicateTransaction", tx>>
Overflow == <<"Overflow">>
AccountLocked == <<"AccountLocked">>
InsufficientFunds == <<"InsufficientFunds">>
InvalidTransaction == <<"InvalidTransaction">>

\* ---------------------------------------------------------------- Currency
\* Option<Currency>: None is the empty sequence, Some(v) is <<v>>.
None == <<>>
Some(v) == <<v>>

\* Currency::default
CurrencyDefault == 0

\* Currency::checked_add (u64::checked_add)
checked_add(a, b) == IF a + b > MaxAmount THEN None ELSE Some(a + b)

\* checked_sub on a signed amount: a difference below zero is returned.
checked_sub_Signed(a, b) == Some(a - b)

\* Currency::checked_sub (u64::checked_sub)
checked_sub(a, b) == IF a - b < 0 THEN None ELSE Some(a - b)

\* Currency::is_negative: called by account.rs and lib.rs, not defined in
\* currency.rs; on the unsigned amount it is the sign test.
is_negative(a) == a < 0

\* Currency::DECIMAL_DIGITS
DECIMAL_DIGITS == 4

\* 10u64.pow(n)
RECURSIVE Pow10(_)
Pow10(n) == IF n = 0 THEN 1 ELSE 10 * Pow10(n - 1)

\* Currency::UNIT_IN_DECIMALS
UNIT_IN_DECIMALS == Pow10(DECIMAL_DIGITS)

\* u64::MAX at the model's width.
U64Max == 2 ^ AmountBits - 1

\* Result<Currency, _>: Ok(Currency { amount }), the errors of CurrencyError
\* and CurrencyFormatError, and a panic of the arithmetic overflow check.
CurrencyOk(amount) == <<"Ok", amount>>
CurrencyErrorOverflow == <<"Err", "Overflow">>
CurrencyErrorDecimalError == <<"Err", "DecimalError">>
InvalidRepresentation == <<"Err", "InvalidRepresentation">>
Panicked == <<"panic">>

\* A + or * on u64 outside checked_*: with overflow checks (debug build) it
\* panics, without them (release build) it wraps.
Unchecked(n, checks) ==
    IF n <= U64Max THEN CurrencyOk(n)
    ELSE IF checks THEN Panicked
    ELSE CurrencyOk(n % (2 ^ AmountBits))

\* Currency::new; checks tells whether the build has overflow checks.
CurrencyNew(unit, decimal, checks) ==
    IF unit * UNIT_IN_DECIMALS > U64Max
    THEN CurrencyErrorOverflow
    ELSE IF decimal < UNIT_IN_DECIMALS
    THEN Unchecked(unit * UNIT_IN_DECIMALS + decimal, checks)
    ELSE CurrencyErrorDecimalError

\* A str is a sequence of chars; the ten digits in order.
DigitChars == <<"0", "1", "2", "3", "4", "5", "6", "7", "8", "9">>

\* char::is_digit(10)
is_digit(c) == \E i \in 1..10 : DigitChars[i] = c

\* char::to_digit(10) of a digit
to_digit(c) == (CHOOSE i \in 1..10 : DigitChars[i] = c) - 1

\* The digits of s read from the left onto acc, None at a char that is no
\* digit or when the number exceeds u64::MAX.
RECURSIVE ParseDigits(_, _)
ParseDigits(s, acc) ==
    IF s = <<>> THEN Some(acc)
    ELSE IF ~is_digit(Head(s)) THEN None
    ELSE LET n == acc * 10 + to_digit(Head(s)) IN
         IF n > U64Max THEN None ELSE ParseDigits(Tail(s), n)

\* str::parse::<u64>: an optional + and at least one digit.
ParseU64(s) ==
    IF s = <<>> THEN None
    ELSE IF Head(s) = "+"
    THEN (IF Tail(s) = <<>> THEN None ELSE ParseDigits(Tail(s), 0))
    ELSE ParseDigits(s, 0)

\* str::split('.'): the fields between the points, cur being the field read
\* so far.
RECURSIVE SplitFrom(_, _)
SplitFrom(s, cur) ==
    IF s = <<>> THEN <<cur>>
    ELSE IF Head(s) = "." THEN <<cur>> \o SplitFrom(Tail(s), <<>>)
    ELSE SplitFrom(Tail(s), Append(cur, Head(s)))

split(s) == SplitFrom(s, <<>>)

\* String::truncate(n)
truncate(s, n) == IF Len(s) > n THEN SubSeq(s, 1, n) ELSE s

\* map_err(|_| CurrencyFormatError::InvalidRepresentation)
MapErr(r) == IF r[1] = "Err" THEN InvalidRepresentation ELSE r

\* The [units, decimals] arm of from_str.
FromStrFraction(units, decimals, checks) ==
    LET u == ParseU64(units)
        d0 == IF Len(decimals) > 0 THEN decimals ELSE <<"0">> IN
    IF u = None THEN InvalidRepresentation
    ELSE IF ~(\A i \in 1..Len(d0) : is_digit(d0[i]))
    THEN InvalidRepresentation
    ELSE LET d1 == truncate(d0, DECIMAL_DIGITS)
             multiplier == Pow10(DECIMAL_DIGITS - Len(d1))
             d == ParseU64(d1) IN
         IF d = None THEN InvalidRepresentation
         ELSE LET scaled == Unchecked(d[1] * multiplier, checks) IN
              IF scaled = Panicked THEN Panicked
              ELSE MapErr(CurrencyNew(u[1], scaled[2], checks))

\* <Currency as FromStr>::from_str
from_str(s, checks) ==
    LET fields == split(s) IN
    IF Len(fields) = 1
    THEN LET u == ParseU64(fields[1]) IN
         IF u = None THEN InvalidRepresentation
         ELSE MapErr(CurrencyNew(u[1], 0, checks))
    ELSE IF Len(fields) = 2
    THEN FromStrFraction(fields[1], fields[2], checks)
    ELSE InvalidRepresentation

\* The decimal digits of n ("{}").
RECURSIVE ToDecimal(_)
ToDecimal(n) ==
    IF n < 10 THEN <<DigitChars[n + 1]>>
    ELSE Append(ToDecimal(n \div 10), DigitChars[(n % 10) + 1])

\* A text padded with zeros on the left to width w ("{:0w}").
RECURSIVE ZeroPad(_, _)
ZeroPad(s, w) == IF Len(s) >= w THEN s ELSE ZeroPad(<<"0">> \o s, w)

\* Display written with "{}.{}": the decimals are not padded.
fmt_NoPadding(amount) ==
    ToDecimal(amount \div UNIT_IN_DECIMALS) \o <<".">>
        \o ToDecimal(amount % UNIT_IN_DECIMALS)

\* <Currency as Display>::fmt: "{}.{:04}"
fmt(amount) ==
    ToDecimal(amount \div UNIT_IN_DECIMALS) \o <<".">>
        \o ZeroPad(ToDecimal(amount % UNIT_IN_DECIMALS), DECIMAL_DIGITS)

\* ----------------------------------------------------------------- Account
\* Account::new
AccountNew(client) ==
    [client |-> client, available |-> CurrencyDefault,
     held |-> CurrencyDefault, locked |-> FALSE]

\* Account::total
total(acct) == checked_add(acct.available, acct.held)

\* Account::lock
lock(acct) == [acct EXCEPT !.locked = TRUE]

\* Account::is_locked
is_locked(acct) == acct.locked

\* Result of a call of a method of Account: the account afterwards and the
\* value returned.
Ret(acct, res) == [acct |-> acct, res |-> res]

\* deposit without its test of the lock.
deposit_IgnoresLock(acct, amount) ==
    LET sum == checked_add(acct.available, amount) IN
    IF sum = None
    THEN Ret(acct, Overflow)
    ELSE Ret([acct EXCEPT !.available = sum[1]], Ok)

\* Account::deposit
deposit(acct, amount) ==
    IF ~is_locked(acct)
    THEN LET sum == checked_add(acct.available, amount) IN
         IF sum = None
         THEN Ret(acct, Overflow)
         ELSE Ret([acct EXCEPT !.available = sum[1]], Ok)
    ELSE Ret(acct, AccountLocked)

\* Account::withdraw
withdraw(acct, amount) ==
    IF ~is_locked(acct)
    THEN LET diff == checked_sub(acct.available, amount) IN
         IF diff = None
         THEN Ret(acct, Overflow)
         ELSE IF is_negative(diff[1])
              THEN Ret(acct, InsufficientFunds)
              ELSE Ret([acct EXCEPT !.available = diff[1]], Ok)
    ELSE Ret(acct, AccountLocked)

\* Account::chargeback
chargeback(acct, amount) ==
    IF ~is_locked(acct)
    THEN LET diff == checked_sub(acct.held, amount) IN
         IF diff = None
         THEN Ret(acct, Overflow)
         ELSE LET a1 == [acct EXCEPT !.held = diff[1]] IN
              IF is_negative(a1.held)
              THEN Ret(a1, InsufficientHeldFunds)
              ELSE Ret(lock(a1), Ok)
    ELSE Ret(acct, AccountLocked)

\* Account::hold: held is written before available is checked.
hold(acct, amount) ==
    IF ~is_locked(acct)
    THEN LET sum == checked_add(acct.held, amount) IN
         IF sum = None
         THEN Ret(acct, Overflow)
         ELSE LET a1 == [acct EXCEPT !.held = sum[1]]
                  diff == checked_sub(a1.available, amount) IN
              IF diff = None
              THEN Ret(a1, Overflow)
              ELSE Ret([a1 EXCEPT !.available = diff[1]], Ok)
    ELSE Ret(acct, AccountLocked)

\* release without its test of the lock.
release_IgnoresLock(acct, amount) ==
    LET diff == checked_sub(acct.held, amount) IN
    IF diff = None
    THEN Ret(acct, Overflow)
    ELSE LET a1 == [acct EXCEPT !.held = diff[1]] IN
         IF is_negative(a1.held)
         THEN Ret(a1, InsufficientHeldFunds)
         ELSE LET sum == checked_add(a1.available, amount) IN
              IF sum = None
              THEN Ret(a1, Overflow)
              ELSE Ret([a1 EXCEPT !.available = sum[1]], Ok)

\* Account::release: held is written before available is checked.
release(acct, amount) ==
    IF ~is_locked(acct)
    THEN LET diff == checked_sub(acct.held, amount) IN
         IF diff = None
         THEN Ret(acct, Overflow)
         ELSE LET a1 == [acct EXCEPT !.held = diff[1]] IN
              IF is_negative(a1.held)
              THEN Ret(a1, InsufficientHeldFunds)
              ELSE LET sum == checked_add(a1.available, amount) IN
                   IF sum = None
                   THEN Ret(a1, Overflow)
                   ELSE Ret([a1 EXCEPT !.available = sum[1]], Ok)
    ELSE Ret(acct, AccountLocked)

\* ------------------------------------------------------------- Transaction
\* Transaction::Deposit
TxDeposit(client, tx, amount, disputed) ==
    [kind |-> "Deposit", client |-> client, tx |-> tx, amount |-> amount,
     disputed |-> disputed]

\* Transaction::Withdrawal
TxWithdrawal(client, tx, amount) ==
    [kind |-> "Withdrawal", client |-> client, tx |-> tx, amount |-> amount]

\* Transaction::Dispute
TxDispute(client, tx) == [kind |-> "Dispute", client |-> client, tx |-> tx]

\* Transaction::Resolve
TxResolve(client, tx) == [kind |-> "Resolve", client |-> client, tx |-> tx]

\* Transaction::Chargeback
TxChargeback(client, tx) ==
    [kind |-> "Chargeback", client |-> client, tx |-> tx]

\* TryFrom<TransactionRow> for Transaction: a deposit row becomes a Deposit
\* with disputed: false.
RowDisputed == FALSE

\* ---------------------------------------------------------------- HashMap
\* HashMap::new
EmptyMap == [k \in {} |-> 0]

\* HashMap::contains_key
contains_key(m, k) == k \in DOMAIN m

\* HashMap::insert
insert(m, k, v) == [x \in DOMAIN m \cup {k} |-> IF x = k THEN v ELSE m[x]]

\* or_insert written as insert: an existing entry is overwritten.
or_insert_Overwrite(m, k, v) == insert(m, k, v)

\* HashMap::entry(k).or_insert(v): the map with k present.
or_insert(m, k, v) == IF contains_key(m, k) THEN m ELSE insert(m, k, v)

\* ---------------------------------------------------------------- Transakt
\* The arm called no method of Account.
NoCall == <<"NoCall">>

\* Outcome of execute_transaction: the two maps afterwards, the value
\* returned, and the value returned by the Account method it called
\* (NoCall when it called none).
Outcome(accts, txs, res, call) ==
    [accounts |-> accts, transactions |-> txs, result |-> res, call |-> call]

\* The Deposit arm without its contains_key test.
ExecDeposit_NoDuplicateCheck(accts, txs, t) ==
    IF is_negative(t.amount)
    THEN Outcome(accts, txs, InvalidTransaction, NoCall)
    ELSE LET a1 == or_insert(accts, t.client, AccountNew(t.client))
             r == deposit(a1[t.client], t.amount)
             a2 == [a1 EXCEPT ![t.client] = r.acct] IN
         IF r.res # Ok
         THEN Outcome(a2, txs, r.res, r.res)
         ELSE Outcome(a2, insert(txs, t.tx, t), Ok, r.res)

\* execute_transaction, Deposit arm
ExecDeposit(accts, txs, t) ==
    IF is_negative(t.amount)
    THEN Outcome(accts, txs, InvalidTransaction, NoCall)
    ELSE IF contains_key(txs, t.tx)
    THEN Outcome(accts, txs, DuplicateTransaction(t.tx), NoCall)
    ELSE LET a1 == or_insert(accts, t.client, AccountNew(t.client))
             r == deposit(a1[t.client], t.amount)
             a2 == [a1 EXCEPT ![t.client] = r.acct] IN
         IF r.res # Ok
         THEN Outcome(a2, txs, r.res, r.res)
         ELSE Outcome(a2, insert(txs, t.tx, t), Ok, r.res)

\* The Withdrawal arm looking the account up with get instead of
\* entry().or_insert(): a client without account is refused, none is created.
ExecWithdrawal_NoCreate(accts, txs, t) ==
    IF is_negative(t.amount)
    THEN Outcome(accts, txs, InvalidTransaction, NoCall)
    ELSE IF contains_key(txs, t.tx)
    THEN Outcome(accts, txs, DuplicateTransaction(t.tx), NoCall)
    ELSE IF ~contains_key(accts, t.client)
    THEN Outcome(accts, txs, InvalidTransaction, NoCall)
    ELSE LET r == withdraw(accts[t.client], t.amount)
             a2 == [accts EXCEPT ![t.client] = r.acct] IN
         IF r.res # Ok
         THEN Outcome(a2, txs, r.res, r.res)
         ELSE Outcome(a2, insert(txs, t.tx, t), Ok, r.res)

\* The Withdrawal arm recording the transaction before it calls withdraw.
ExecWithdrawal_RecordFirst(accts, txs, t) ==
    IF is_negative(t.amount)
    THEN Outcome(accts, txs, InvalidTransaction, NoCall)
    ELSE IF contains_key(txs, t.tx)
    THEN Outcome(accts, txs, DuplicateTransaction(t.tx), NoCall)
    ELSE LET a1 == or_insert(accts, t.client, AccountNew(t.client))
             r == withdraw(a1[t.client], t.amount)
             a2 == [a1 EXCEPT ![t.client] = r.acct] IN
         Outcome(a2, insert(txs, t.tx, t), r.res, r.res)

\* execute_transaction, Withdrawal arm
ExecWithdrawal(accts, txs, t) ==
    IF is_negative(t.amount)
    THEN Outcome(accts, txs, InvalidTransaction, NoCall)
    ELSE IF contains_key(txs, t.tx)
    THEN Outcome(accts, txs, DuplicateTransaction(t.tx), NoCall)
    ELSE LET a1 == or_insert(accts, t.client, AccountNew(t.client))
             r == withdraw(a1[t.client], t.amount)
             a2 == [a1 EXCEPT ![t.client] = r.acct] IN
         IF r.res # Ok
         THEN Outcome(a2, txs, r.res, r.res)
         ELSE Outcome(a2, insert(txs, t.tx, t), Ok, r.res)

\* The Dispute arm holding on the account of the request's client instead of
\* the client recorded with the deposit.
ExecDispute_RequestClient(accts, txs, t) ==
    IF ~contains_key(txs, t.tx)
    THEN Outcome(accts, txs, Ok, NoCall)
    ELSE LET rec == txs[t.tx] IN
         IF rec.kind # "Deposit"
         THEN Outcome(accts, txs, Ok, NoCall)
         ELSE IF rec.disputed
         THEN Outcome(accts, txs, InvalidTransaction, NoCall)
         ELSE LET txs1 == [txs EXCEPT ![t.tx].disputed = TRUE]
                  a1 == or_insert(accts, t.client, AccountNew(t.client))
                  r == hold(a1[t.client], rec.amount) IN
              Outcome([a1 EXCEPT ![t.client] = r.acct], txs1, Ok, r.res)

\* The Dispute arm without its test of the disputed flag.
ExecDispute_NoDisputedCheck(accts, txs, t) ==
    IF ~contains_key(txs, t.tx)
    THEN Outcome(accts, txs, Ok, NoCall)
    ELSE LET rec == txs[t.tx] IN
         IF rec.kind # "Deposit"
         THEN Outcome(accts, txs, Ok, NoCall)
         ELSE LET txs1 == [txs EXCEPT ![t.tx].disputed = TRUE]
                  r == hold(accts[rec.client], rec.amount) IN
              Outcome([accts EXCEPT ![rec.client] = r.acct], txs1, Ok, r.res)

\* execute_transaction, Dispute arm: the value of hold is dropped.
ExecDispute(accts, txs, t) ==
    IF ~contains_key(txs, t.tx)
    THEN Outcome(accts, txs, Ok, NoCall)
    ELSE LET rec == txs[t.tx] IN
         IF rec.kind # "Deposit"
         THEN Outcome(accts, txs, Ok, NoCall)
         ELSE IF rec.disputed
         THEN Outcome(accts, txs, InvalidTransaction, NoCall)
         ELSE LET txs1 == [txs EXCEPT ![t.tx].disputed = TRUE]
                  r == hold(accts[rec.client], rec.amount) IN
              Outcome([accts EXCEPT ![rec.client] = r.acct], txs1, Ok, r.res)

\* The Resolve arm without its test of the disputed flag.
ExecResolve_NoDisputedCheck(accts, txs, t) ==
    IF ~contains_key(txs, t.tx)
    THEN Outcome(accts, txs, Ok, NoCall)
    ELSE LET rec == txs[t.tx] IN
         IF rec.kind # "Deposit"
         THEN Outcome(accts, txs, Ok, NoCall)
         ELSE LET txs1 == [txs EXCEPT ![t.tx].disputed = FALSE]
                  r == release(accts[rec.client], rec.amount) IN
              Outcome([accts EXCEPT ![rec.client] = r.acct], txs1, Ok, r.res)

\* execute_transaction, Resolve arm: the value of release is dropped.
ExecResolve(accts, txs, t) ==
    IF ~contains_key(txs, t.tx)
    THEN Outcome(accts, txs, Ok, NoCall)
    ELSE LET rec == txs[t.tx] IN
         IF rec.kind # "Deposit"
         THEN Outcome(accts, txs, Ok, NoCall)
         ELSE IF ~rec.disputed
         THEN Outcome(accts, txs, InvalidTransaction, NoCall)
         ELSE LET txs1 == [txs EXCEPT ![t.tx].disputed = FALSE]
                  r == release(accts[rec.client], rec.amount) IN
              Outcome([accts EXCEPT ![rec.client] = r.acct], txs1, Ok, r.res)

\* The Chargeback arm returning an error for a tx that is not in the ledger.
ExecChargeback_UnknownIsError(accts, txs, t) ==
    IF ~contains_key(txs, t.tx)
    THEN Outcome(accts, txs, InvalidTransaction, NoCall)
    ELSE LET rec == txs[t.tx] IN
         IF rec.kind # "Deposit"
         THEN Outcome(accts, txs, InvalidTransaction, NoCall)
         ELSE IF ~rec.disputed
         THEN Outcome(accts, txs, InvalidTransaction, NoCall)
         ELSE LET txs1 == [txs EXCEPT ![t.tx].disputed = FALSE]
                  r == chargeback(accts[rec.client], rec.amount) IN
              Outcome([accts EXCEPT ![rec.client] = r.acct], txs1, r.res, r.res)

\* execute_transaction, Chargeback arm: the value of chargeback is returned
\* with `?`, after the record's flag was cleared.
ExecChargeback(accts, txs, t) ==
    IF ~contains_key(txs, t.tx)
    THEN Outcome(accts, txs, Ok, NoCall)
    ELSE LET rec == txs[t.tx] IN
         IF rec.kind # "Deposit"
         THEN Outcome(accts, txs, Ok, NoCall)
         ELSE IF ~rec.disputed
         THEN Outcome(accts, txs, InvalidTransaction, NoCall)
         ELSE LET txs1 == [txs EXCEPT ![t.tx].disputed = FALSE]
                  r == chargeback(accts[rec.client], rec.amount) IN
              Outcome([accts EXCEPT ![rec.client] = r.acct], txs1, r.res, r.res)

\* Transakt::execute_transaction
execute_transaction(accts, txs, t) ==
    CASE t.kind = "Deposit" -> ExecDeposit(accts, txs, t)
      [] t.kind = "Withdrawal" -> ExecWithdrawal(accts, txs, t)
      [] t.kind = "Dispute" -> ExecDispute(accts, txs, t)
      [] t.kind = "Resolve" -> ExecResolve(accts, txs, t)
      [] t.kind = "Chargeback" -> ExecChargeback(accts, txs, t)

\* ------------------------------------------------------------------- state
VARIABLES
    accounts,         \* Transakt.accounts: HashMap<ClientId, Account>
    transactions,     \* Transakt.transactions: HashMap<TransactionId, Transaction>
    lastTx,           \* argument of the last call of execute_transaction
    result,           \* value it returned: Ok or the Error variant
    callResult,       \* value returned by the Account method it called
    prevAccounts,     \* accounts when that call started
    prevTransactions, \* transactions when that call started
    chargedback,      \* deposits on which a Chargeback has succeeded
    rows,             \* read_from_csv: the transactions of the input file
    nextRow,          \* read_from_csv: index of the row the loop reads next
    returned,         \* read_from_csv: NotReturned, or the value it returned
    curCall,          \* Currency: the call of new or from_str that was made
    curValue,         \* Currency: what that call returned
    curText,          \* Currency: the text Display wrote for that value
    curParsed         \* Currency: what from_str returned for that text

engineVars == <<accounts, transactions, lastTx, result, callResult,
                prevAccounts, prevTransactions, chargedback>>

csvVars == <<rows, nextRow, returned>>

curVars == <<curCall, curValue, curText, curParsed>>

vars == <<engineVars, csvVars, curVars>>

\* No Currency was built from parts or text yet.
NoCurrencyCall == [fn |-> "none"]

\* from_str was not called on the text of Display.
NotParsed == <<"NotParsed">>

\* No call of Currency::new, from_str or Display outside the engine.
CurrencyIdle ==
    /\ curCall = NoCurrencyCall
    /\ curValue = None
    /\ curText = None
    /\ curParsed = NotParsed

\* read_from_csv has not returned (or is not running).
NotReturned == <<"NotReturned">>

\* The deposits charged back after execute_transaction(t) gave outcome o.
ChargedbackAfter(t, o) ==
    IF /\ t.kind = "Chargeback"
       /\ contains_key(transactions, t.tx)
       /\ transactions[t.tx].kind = "Deposit"
       /\ transactions[t.tx].disputed
       /\ o.result = Ok
    THEN chargedback \cup {t.tx}
    ELSE chargedback

\* Transakt::default; no call of execute_transaction yet, made by a caller
\* other than read_from_csv.
Init ==
    /\ accounts = EmptyMap
    /\ transactions = EmptyMap
    /\ lastTx = [kind |-> "None"]
    /\ result = Ok
    /\ callResult = NoCall
    /\ prevAccounts = EmptyMap
    /\ prevTransactions = EmptyMap
    /\ chargedback = {}
    /\ rows = <<>>
    /\ nextRow = 1
    /\ returned = NotReturned
    /\ CurrencyIdle

\* execute_transaction called with a Deposit built from a row.
Deposit ==
    \E c \in Clients, tx \in TxIds, a \in Amounts :
        LET t == TxDeposit(c, tx, a, RowDisputed)
            o == execute_transaction(accounts, transactions, t) IN
        /\ accounts' = o.accounts
        /\ transactions' = o.transactions
        /\ lastTx' = t
        /\ result' = o.result
        /\ callResult' = o.call
        /\ prevAccounts' = accounts
        /\ prevTransactions' = transactions
        /\ chargedback' = ChargedbackAfter(t, o)
        /\ UNCHANGED <<csvVars, curVars>>

\* execute_transaction called with a Withdrawal.
Withdrawal ==
    \E c \in Clients, tx \in TxIds, a \in Amounts :
        LET t == TxWithdrawal(c, tx, a)
            o == execute_transaction(accounts, transactions, t) IN
        /\ accounts' = o.accounts
        /\ transactions' = o.transactions
        /\ lastTx' = t
        /\ result' = o.result
        /\ callResult' = o.call
        /\ prevAccounts' = accounts
        /\ prevTransactions' = transactions
        /\ chargedback' = ChargedbackAfter(t, o)
        /\ UNCHANGED <<csvVars, curVars>>

\* execute_transaction called with a Dispute.
Dispute ==
    \E c \in Clients, tx \in TxIds :
        LET t == TxDispute(c, tx)
            o == execute_transaction(accounts, transactions, t) IN
        /\ accounts' = o.accounts
        /\ transactions' = o.transactions
        /\ lastTx' = t
        /\ result' = o.result
        /\ callResult' = o.call
        /\ prevAccounts' = accounts
        /\ prevTransactions' = transactions
        /\ chargedback' = ChargedbackAfter(t, o)
        /\ UNCHANGED <<csvVars, curVars>>

\* execute_transaction called with a Resolve.
Resolve ==
    \E c \in Clients, tx \in TxIds :
        LET t == TxResolve(c, tx)
            o == execute_transaction(accounts, transactions, t) IN
        /\ accounts' = o.accounts
        /\ transactions' = o.transactions
        /\ lastTx' = t
        /\ result' = o.result
        /\ callResult' = o.call
        /\ prevAccounts' = accounts
        /\ prevTransactions' = transactions
        /\ chargedback' = ChargedbackAfter(t, o)
        /\ UNCHANGED <<csvVars, curVars>>

\* execute_transaction called with a Chargeback.
Chargeback ==
    \E c \in Clients, tx \in TxIds :
        LET t == TxChargeback(c, tx)
            o == execute_transaction(accounts, transactions, t) IN
        /\ accounts' = o.accounts
        /\ transactions' = o.transactions
        /\ lastTx' = t
        /\ result' = o.result
        /\ callResult' = o.call
        /\ prevAccounts' = accounts
        /\ prevTransactions' = transactions
        /\ chargedback' = ChargedbackAfter(t, o)
        /\ UNCHANGED <<csvVars, curVars>>

Next == Deposit \/ Withdrawal \/ Dispute \/ Resolve \/ Chargeback

Spec == Init /\ [][Next]_vars

\* ----------------------------------------------------------- read_from_csv
\* The transactions a row can be converted to (TryFrom<TransactionRow>).
Rows ==
    {TxDeposit(c, tx, a, RowDisputed) : c \in Clients, tx \in TxIds, a \in Amounts}
        \cup {TxWithdrawal(c, tx, a) : c \in Clients, tx \in TxIds, a \in Amounts}
        \cup {TxDispute(c, tx) : c \in Clients, tx \in TxIds}
        \cup {TxResolve(c, tx) : c \in Clients, tx \in TxIds}
        \cup {TxChargeback(c, tx) : c \in Clients, tx \in TxIds}

\* The input files of at most MaxRows rows.
Files == UNION {[1..n -> Rows] : n \in 0..MaxRows}

\* read_from_csv entered: Self::default() and the reader opened on a file.
InitCsv ==
    /\ accounts = EmptyMap
    /\ transactions = EmptyMap
    /\ lastTx = [kind |-> "None"]
    /\ result = Ok
    /\ callResult = NoCall
    /\ prevAccounts = EmptyMap
    /\ prevTransactions = EmptyMap
    /\ chargedback = {}
    /\ rows \in Files
    /\ nextRow = 1
    /\ returned = NotReturned
    /\ CurrencyIdle

\* One iteration of `for record in csv.deserialize()`: the row is executed,
\* and `?` returns its error from read_from_csv.
ReadRow ==
    /\ returned = NotReturned
    /\ nextRow <= Len(rows)
    /\ LET t == rows[nextRow]
           o == execute_transaction(accounts, transactions, t) IN
       /\ accounts' = o.accounts
       /\ transactions' = o.transactions
       /\ lastTx' = t
       /\ result' = o.result
       /\ callResult' = o.call
       /\ prevAccounts' = accounts
       /\ prevTransactions' = transactions
       /\ chargedback' = ChargedbackAfter(t, o)
       /\ nextRow' = nextRow + 1
       /\ returned' = IF o.result = Ok THEN NotReturned ELSE o.result
    /\ UNCHANGED <<rows, curVars>>

\* The loop is over: read_from_csv returns Ok(transakt).
ReturnOk ==
    /\ returned = NotReturned
    /\ nextRow > Len(rows)
    /\ returned' = Ok
    /\ UNCHANGED <<engineVars, rows, nextRow, curVars>>

NextCsv == ReadRow \/ ReturnOk

SpecCsv == InitCsv /\ [][NextCsv]_vars

\* ------------------------------------- callers inside the crate
\* execute_transaction called with a Deposit value built by a caller inside
\* the crate (Transaction::Deposit { .. } written out, as the unit tests of
\* lib.rs do): its field disputed is any bool.
DepositValue ==
    \E c \in Clients, tx \in TxIds, a \in Amounts, d \in BOOLEAN :
        LET t == TxDeposit(c, tx, a, d)
            o == execute_transaction(accounts, transactions, t) IN
        /\ accounts' = o.accounts
        /\ transactions' = o.transactions
        /\ lastTx' = t
        /\ result' = o.result
        /\ callResult' = o.call
        /\ prevAccounts' = accounts
        /\ prevTransactions' = transactions
        /\ chargedback' = ChargedbackAfter(t, o)
        /\ UNCHANGED <<csvVars, curVars>>

NextValue == DepositValue \/ Withdrawal \/ Dispute \/ Resolve \/ Chargeback

SpecValue == Init /\ [][NextValue]_vars

\* ------------------------------------------------ Currency as text
\* The arguments unit and decimal given to Currency::new.
NewUnits == 0..MaxUnit
NewDecimals == 0..UNIT_IN_DECIMALS

\* The chars of the texts given to from_str, before and after the point.
UnitChars == {"0", "1", "9", "+", "x"}
FracChars == {"0", "1", "9", "x"}

\* The texts of at most n chars of the set chars.
TextsOf(chars, n) == UNION {[1..k -> chars] : k \in 0..n}

\* The texts given to from_str: no point, one point, or two points.
Texts ==
    LET units == TextsOf(UnitChars, MaxUnitLen)
        fracs == TextsOf(FracChars, MaxFracLen) IN
    units
        \cup {u \o <<".">> \o f : u \in units, f \in fracs}
        \cup {u \o <<".">> \o f \o <<".">> : u \in units, f \in TextsOf(FracChars, 1)}

\* Currency::new(unit, decimal)
New ==
    /\ curCall = NoCurrencyCall
    /\ \E unit \in NewUnits, decimal \in NewDecimals, checks \in BOOLEAN :
          /\ curCall' = [fn |-> "new", unit |-> unit, decimal |-> decimal,
                         checks |-> checks]
          /\ curValue' = CurrencyNew(unit, decimal, checks)
    /\ UNCHANGED <<engineVars, csvVars, curText, curParsed>>

\* Currency::from_str(s), as Deserialize calls it on a field of a row.
FromStr ==
    /\ curCall = NoCurrencyCall
    /\ \E s \in Texts, checks \in BOOLEAN :
          /\ curCall' = [fn |-> "from_str", s |-> s, checks |-> checks]
          /\ curValue' = from_str(s, checks)
    /\ UNCHANGED <<engineVars, csvVars, curText, curParsed>>

\* format!("{}", value), as Serialize calls it on the value built.
Display ==
    /\ curValue # None
    /\ curValue[1] = "Ok"
    /\ curText = None
    /\ curText' = Some(fmt(curValue[2]))
    /\ UNCHANGED <<engineVars, csvVars, curCall, curValue, curParsed>>

\* Currency::from_str called on the text that Display wrote.
FromStrDisplayed ==
    /\ curText # None
    /\ curParsed = NotParsed
    /\ curParsed' = from_str(curText[1], curCall.checks)
    /\ UNCHANGED <<engineVars, csvVars, curCall, curValue, curText>>

NextCurrency == New \/ FromStr \/ Display \/ FromStrDisplayed

\* Currency values built, written and parsed outside the engine, which stays
\* as Transakt::default left it.
SpecCurrency == Init /\ [][NextCurrency]_vars

\* ------------------------------------------------------------ type sanity
TypeOK ==
    /\ DOMAIN accounts \subseteq Clients
    /\ DOMAIN transactions \subseteq TxIds
    /\ \A c \in DOMAIN accounts :
          /\ accounts[c].client = c
          /\ accounts[c].available \in Amounts
          /\ accounts[c].held \in Amounts
          /\ accounts[c].locked \in BOOLEAN
    /\ \A x \in DOMAIN transactions :
          /\ transactions[x].tx = x
          /\ transactions[x].kind \in {"Deposit", "Withdrawal"}
          /\ transactions[x].client \in DOMAIN accounts

\* ------------------------------------------------------------------ claims
\* The record stored under tx is a deposit.
IsDeposit(txs, tx) == contains_key(txs, tx) /\ txs[tx].kind = "Deposit"

\* The record stored under tx is a deposit that is not disputed.
IsPostedDeposit(txs, tx) == IsDeposit(txs, tx) /\ ~txs[tx].disputed

\* The record stored under tx is a deposit that is disputed.
IsDisputedDeposit(txs, tx) == IsDeposit(txs, tx) /\ txs[tx].disputed

\* The last call was a Dispute of a recorded deposit that was not disputed.
DisputedPosted ==
    lastTx.kind = "Dispute" /\ IsPostedDeposit(prevTransactions, lastTx.tx)

\* The last call was a Deposit or a Withdrawal.
LastMovesFunds == lastTx.kind \in {"Deposit", "Withdrawal"}

\* C1: after a Dispute of a recorded, undisputed deposit, a Resolve of the
\* same deposit leaves the owner's available and held as they were before
\* the Dispute.
C1_DisputeResolveRestores ==
    DisputedPosted =>
        LET owner == prevTransactions[lastTx.tx].client
            o == execute_transaction(accounts, transactions,
                                     TxResolve(lastTx.client, lastTx.tx)) IN
        /\ o.accounts[owner].available = prevAccounts[owner].available
        /\ o.accounts[owner].held = prevAccounts[owner].held

\* C2: after a Dispute of a recorded, undisputed deposit, a Chargeback of the
\* same deposit leaves held at its value before the Dispute, available
\* reduced by the deposit amount, and the account locked.
C2_DisputeChargebackRemoves ==
    DisputedPosted =>
        LET rec == prevTransactions[lastTx.tx]
            o == execute_transaction(accounts, transactions,
                                     TxChargeback(lastTx.client, lastTx.tx)) IN
        /\ o.accounts[rec.client].held = prevAccounts[rec.client].held
        /\ o.accounts[rec.client].available =
               prevAccounts[rec.client].available - rec.amount
        /\ o.accounts[rec.client].locked

\* C3: a call of execute_transaction that returns an error leaves the account
\* map and the ledger as they were.
C3_ErrorLeavesStateUnchanged ==
    result # Ok =>
        /\ accounts = prevAccounts
        /\ transactions = prevTransactions

\* C4: a Deposit or Withdrawal whose tx is already recorded is rejected with
\* DuplicateTransaction(tx) and changes neither the account map nor the
\* ledger.
C4_DuplicateRejected ==
    (LastMovesFunds /\ contains_key(prevTransactions, lastTx.tx)) =>
        /\ result = DuplicateTransaction(lastTx.tx)
        /\ accounts = prevAccounts
        /\ transactions = prevTransactions

\* C4 witness: a Deposit reusing the tx of a recorded Withdrawal, for a client
\* that has no account, with another amount.
C4_Witness ==
    /\ lastTx.kind = "Deposit"
    /\ contains_key(prevTransactions, lastTx.tx)
    /\ prevTransactions[lastTx.tx].kind = "Withdrawal"
    /\ prevTransactions[lastTx.tx].amount # lastTx.amount
    /\ ~contains_key(prevAccounts, lastTx.client)
    /\ result = DuplicateTransaction(lastTx.tx)

\* C5: when hold returns an error, the account's available and held are what
\* they were before the call.
C5_HoldAllOrNothing ==
    (DisputedPosted /\ callResult # Ok) =>
        LET owner == prevTransactions[lastTx.tx].client IN
        /\ accounts[owner].available = prevAccounts[owner].available
        /\ accounts[owner].held = prevAccounts[owner].held

\* C6: an account that is locked before a call of execute_transaction is
\* still in the map and locked after it.
C6_LockedMonotonic ==
    \A c \in DOMAIN prevAccounts :
        prevAccounts[c].locked =>
            contains_key(accounts, c) /\ accounts[c].locked

\* C6 witness: a Deposit on a locked account was rejected, and the account is
\* still locked.
C6_Witness ==
    /\ lastTx.kind = "Deposit"
    /\ contains_key(prevAccounts, lastTx.client)
    /\ prevAccounts[lastTx.client].locked
    /\ accounts[lastTx.client].locked
    /\ result = AccountLocked

\* C7: for every account, available + held is representable (total() is not
\* None).
C7_TotalRepresentable ==
    \A c \in DOMAIN accounts : total(accounts[c]) # None

\* C8: a Chargeback of a disputed deposit (of a positive amount) whose account
\* is already locked and holds at least the amount succeeds, removes the
\* amount from held and leaves the account locked.
C8_ChargebackOnLocked ==
    (/\ lastTx.kind = "Chargeback"
     /\ IsDisputedDeposit(prevTransactions, lastTx.tx)
     /\ prevTransactions[lastTx.tx].amount > 0
     /\ prevAccounts[prevTransactions[lastTx.tx].client].locked
     /\ prevAccounts[prevTransactions[lastTx.tx].client].held
            >= prevTransactions[lastTx.tx].amount) =>
        LET rec == prevTransactions[lastTx.tx] IN
        /\ result = Ok
        /\ accounts[rec.client].held = prevAccounts[rec.client].held - rec.amount
        /\ accounts[rec.client].locked

\* C9: a Deposit or Withdrawal that fails leaves the ledger as it was, does
\* not record its tx, and changes no account that existed before.
C9_FailedFundsMoveChangesNothing ==
    (LastMovesFunds /\ result # Ok) =>
        /\ transactions = prevTransactions
        /\ \A c \in DOMAIN prevAccounts :
              contains_key(accounts, c) /\ accounts[c] = prevAccounts[c]

\* C9 witness: a Withdrawal with a fresh tx failed on an existing, unlocked
\* account that had funds.
C9_Witness ==
    /\ lastTx.kind = "Withdrawal"
    /\ ~contains_key(prevTransactions, lastTx.tx)
    /\ contains_key(prevAccounts, lastTx.client)
    /\ ~prevAccounts[lastTx.client].locked
    /\ prevAccounts[lastTx.client].available > 0
    /\ result # Ok

\* The account that a Deposit or Withdrawal of client c acts on.
AccountBefore(c) ==
    IF contains_key(prevAccounts, c) THEN prevAccounts[c] ELSE AccountNew(c)

\* C10: a Withdrawal with a fresh tx on an unlocked account fails with
\* InsufficientFunds and changes no balance when amount > available, and
\* succeeds, taking exactly amount from available, otherwise.
C10_WithdrawalOutcome ==
    (/\ lastTx.kind = "Withdrawal"
     /\ ~contains_key(prevTransactions, lastTx.tx)
     /\ ~AccountBefore(lastTx.client).locked) =>
        LET before == AccountBefore(lastTx.client)
            after == accounts[lastTx.client] IN
        IF lastTx.amount > before.available
        THEN /\ result = InsufficientFunds
             /\ after.available = before.available
             /\ after.held = before.held
        ELSE /\ result = Ok
             /\ after.available = before.available - lastTx.amount
             /\ after.held = before.held

\* The last call was a Dispute, a Resolve or a Chargeback.
LastRefersToTx == lastTx.kind \in {"Dispute", "Resolve", "Chargeback"}

\* The call left the account map and the ledger as they were.
StateUnchanged ==
    accounts = prevAccounts /\ transactions = prevTransactions

\* C11: a Dispute of a recorded, undisputed deposit that returns Ok and marks
\* it disputed has taken exactly the deposit amount from the owner's
\* available and added it to held, so available + held is as before.
C11_DisputeMovesAmount ==
    (/\ DisputedPosted
     /\ result = Ok
     /\ transactions[lastTx.tx].disputed) =>
        LET rec == prevTransactions[lastTx.tx]
            before == prevAccounts[rec.client]
            after == accounts[rec.client] IN
        /\ after.available = before.available - rec.amount
        /\ after.held = before.held + rec.amount
        /\ after.available + after.held = before.available + before.held

\* C12: a Dispute, Resolve or Chargeback whose tx is not in the ledger, or
\* names a recorded Withdrawal, returns Ok and changes neither the account
\* map nor the ledger.
C12_UnknownReferenceIsNoOp ==
    (LastRefersToTx /\ ~IsDeposit(prevTransactions, lastTx.tx)) =>
        result = Ok /\ StateUnchanged

\* C12 witness: a Chargeback naming a recorded Withdrawal, sent for a client
\* that has no account.
C12_Witness ==
    /\ lastTx.kind = "Chargeback"
    /\ contains_key(prevTransactions, lastTx.tx)
    /\ prevTransactions[lastTx.tx].kind = "Withdrawal"
    /\ ~contains_key(accounts, lastTx.client)
    /\ result = Ok

\* C13: a Dispute of a deposit that is already disputed fails with
\* InvalidTransaction and changes neither the record nor any account.
C13_SecondDisputeRejected ==
    (lastTx.kind = "Dispute" /\ IsDisputedDeposit(prevTransactions, lastTx.tx)) =>
        result = InvalidTransaction /\ StateUnchanged

\* C13 witness: a Dispute of a disputed deposit whose amount is held on an
\* unlocked account with enough available to be held a second time.
C13_Witness ==
    /\ lastTx.kind = "Dispute"
    /\ IsDisputedDeposit(prevTransactions, lastTx.tx)
    /\ prevTransactions[lastTx.tx].amount > 0
    /\ LET rec == prevTransactions[lastTx.tx] IN
          /\ ~prevAccounts[rec.client].locked
          /\ prevAccounts[rec.client].held >= rec.amount
          /\ prevAccounts[rec.client].available >= rec.amount
    /\ result = InvalidTransaction

\* C14: a Resolve or Chargeback of a recorded deposit that is not disputed
\* fails with InvalidTransaction and changes neither the record nor any
\* account.
C14_NoOpenDisputeRejected ==
    (/\ lastTx.kind \in {"Resolve", "Chargeback"}
     /\ IsPostedDeposit(prevTransactions, lastTx.tx)) =>
        result = InvalidTransaction /\ StateUnchanged

\* C14 witness: a Chargeback of an undisputed deposit on an unlocked account
\* that holds at least the deposit's amount for another dispute.
C14_Witness ==
    /\ lastTx.kind = "Chargeback"
    /\ IsPostedDeposit(prevTransactions, lastTx.tx)
    /\ prevTransactions[lastTx.tx].amount > 0
    /\ LET rec == prevTransactions[lastTx.tx] IN
          /\ ~prevAccounts[rec.client].locked
          /\ prevAccounts[rec.client].held >= rec.amount
    /\ result = InvalidTransaction

\* C16: when release returns an error, the account's available and held are
\* what they were before the call.
C16_ReleaseAllOrNothing ==
    (/\ lastTx.kind = "Resolve"
     /\ IsDisputedDeposit(prevTransactions, lastTx.tx)
     /\ callResult # Ok) =>
        LET owner == prevTransactions[lastTx.tx].client IN
        /\ accounts[owner].available = prevAccounts[owner].available
        /\ accounts[owner].held = prevAccounts[owner].held

\* The last call was a Deposit or Withdrawal whose tx was not yet recorded.
FreshFundsMove ==
    LastMovesFunds /\ ~contains_key(prevTransactions, lastTx.tx)

\* The client of the last call had an account, and it was locked.
LastClientWasLocked ==
    contains_key(prevAccounts, lastTx.client)
        /\ prevAccounts[lastTx.client].locked

\* What C17 says of a Deposit or Withdrawal on a locked account: it is
\* rejected with AccountLocked, the account is as before, the ledger too.
RejectedAsLocked ==
    /\ result = AccountLocked
    /\ accounts[lastTx.client] = prevAccounts[lastTx.client]
    /\ transactions = prevTransactions

\* What C17 says of a Deposit on an unlocked account whose sum does not
\* overflow: available grows by exactly amount, held and locked are as before.
DepositAdded ==
    /\ contains_key(accounts, lastTx.client)
    /\ LET before == AccountBefore(lastTx.client)
           after == accounts[lastTx.client] IN
       /\ after.available = before.available + lastTx.amount
       /\ after.held = before.held
       /\ after.locked = before.locked

\* The last call was a Deposit on an unlocked account whose sum does not
\* overflow.
DepositFits ==
    /\ lastTx.kind = "Deposit"
    /\ ~AccountBefore(lastTx.client).locked
    /\ AccountBefore(lastTx.client).available + lastTx.amount <= MaxAmount

\* C17 as stated: every Deposit and every Withdrawal on a locked account is
\* rejected with AccountLocked and changes nothing; every Deposit on an
\* unlocked account whose sum does not overflow adds exactly amount.
C17_Original ==
    /\ (LastMovesFunds /\ LastClientWasLocked) => RejectedAsLocked
    /\ (DepositFits /\ contains_key(prevAccounts, lastTx.client)) =>
           DepositAdded

\* C17 amended: the same, for a Deposit or Withdrawal whose tx is not yet
\* recorded (one whose tx is recorded is rejected with DuplicateTransaction
\* before the account is looked at).
C17_LockedRejectsUnlockedAdds ==
    FreshFundsMove =>
        /\ LastClientWasLocked => RejectedAsLocked
        /\ DepositFits => DepositAdded

\* C17 witness: a Deposit with a fresh tx and a positive amount that would fit
\* was rejected on a locked account.
C17_Witness ==
    /\ lastTx.kind = "Deposit"
    /\ ~contains_key(prevTransactions, lastTx.tx)
    /\ LastClientWasLocked
    /\ lastTx.amount > 0
    /\ prevAccounts[lastTx.client].available + lastTx.amount <= MaxAmount
    /\ result = AccountLocked

\* The last call was a Dispute, Resolve or Chargeback of a recorded deposit,
\* sent with a client that is not the client recorded with the deposit.
ForeignReference ==
    /\ LastRefersToTx
    /\ IsDeposit(prevTransactions, lastTx.tx)
    /\ lastTx.client # prevTransactions[lastTx.tx].client

\* C18: a Dispute, Resolve or Chargeback sent with another client than the
\* deposit's changes no account but the depositing client's, and creates none.
C18_ActsOnRecordedClient ==
    ForeignReference =>
        /\ DOMAIN accounts = DOMAIN prevAccounts
        /\ \A c \in DOMAIN accounts :
              c # prevTransactions[lastTx.tx].client =>
                  accounts[c] = prevAccounts[c]

\* C18 witness: a Dispute sent with a client that has no account moved funds
\* of the depositing client's account.
C18_Witness ==
    /\ ForeignReference
    /\ lastTx.kind = "Dispute"
    /\ ~contains_key(accounts, lastTx.client)
    /\ LET owner == prevTransactions[lastTx.tx].client IN
          /\ accounts[owner].held > prevAccounts[owner].held
          /\ accounts[owner].available < prevAccounts[owner].available

\* C19 as stated: after a call of any kind the account map contains the
\* client it names, and no account is ever removed.
C19_Original ==
    /\ lastTx.kind # "None" => contains_key(accounts, lastTx.client)
    /\ DOMAIN prevAccounts \subseteq DOMAIN accounts

\* C19 amended: a Deposit or Withdrawal whose tx is not yet recorded leaves its
\* client with an account; every other call creates none; no account is ever
\* removed.
C19_CreatedByFundsMove ==
    DOMAIN accounts =
        DOMAIN prevAccounts \cup
            (IF FreshFundsMove THEN {lastTx.client} ELSE {})

\* C19 witness: a Withdrawal that failed created the account of a client that
\* had none.
C19_Witness ==
    /\ lastTx.kind = "Withdrawal"
    /\ ~contains_key(prevAccounts, lastTx.client)
    /\ result # Ok
    /\ contains_key(accounts, lastTx.client)
    /\ accounts[lastTx.client] = AccountNew(lastTx.client)

\* The last call was the Chargeback that succeeded on the deposit it names.
JustChargedback ==
    /\ lastTx.kind = "Chargeback"
    /\ IsDisputedDeposit(prevTransactions, lastTx.tx)
    /\ result = Ok

\* C15: a deposit on which a Chargeback has succeeded is never disputed
\* again, and no later Dispute, Resolve or Chargeback naming it changes its
\* record or any balance.
C15_ChargedbackIsTerminal ==
    /\ \A tx \in chargedback : ~transactions[tx].disputed
    /\ (LastRefersToTx /\ lastTx.tx \in chargedback /\ ~JustChargedback) =>
           /\ transactions[lastTx.tx] = prevTransactions[lastTx.tx]
           /\ \A c \in DOMAIN accounts :
                 /\ accounts[c].available = prevAccounts[c].available
                 /\ accounts[c].held = prevAccounts[c].held

\* The state after execute_transaction was called with every transaction of
\* seq in order, whatever each call returned.
RECURSIVE AllExecuted(_, _, _)
AllExecuted(accts, txs, seq) ==
    IF seq = <<>>
    THEN [accounts |-> accts, transactions |-> txs]
    ELSE LET o == execute_transaction(accts, txs, Head(seq)) IN
         AllExecuted(o.accounts, o.transactions, Tail(seq))

\* C20: when read_from_csv has returned, every row of the input was executed,
\* those after a failed one too, and the engine is in the state that executing
\* all of them in order gives.
C20_StreamNotHalted ==
    returned # NotReturned =>
        /\ nextRow > Len(rows)
        /\ LET all == AllExecuted(EmptyMap, EmptyMap, rows) IN
              accounts = all.accounts /\ transactions = all.transactions

\* C21: after an accepted Deposit the stored record has disputed = false,
\* whatever flag the Deposit value carried, and a record's flag is true only
\* if it was true before the last call or that call was an accepted Dispute
\* of it.
C21_DepositPosted ==
    /\ (lastTx.kind = "Deposit" /\ result = Ok) =>
           ~transactions[lastTx.tx].disputed
    /\ \A tx \in DOMAIN transactions :
           IsDisputedDeposit(transactions, tx) =>
               \/ IsDisputedDeposit(prevTransactions, tx)
               \/ lastTx.kind = "Dispute" /\ lastTx.tx = tx /\ result = Ok

\* C22: a Withdrawal of a positive amount, with a tx not yet recorded, naming
\* a client that has no account creates the empty account of that client,
\* fails with InsufficientFunds, and does not record its tx.
C22_WithdrawalCreatesEmptyAccount ==
    (/\ lastTx.kind = "Withdrawal"
     /\ ~contains_key(prevTransactions, lastTx.tx)
     /\ ~contains_key(prevAccounts, lastTx.client)
     /\ lastTx.amount > 0) =>
        /\ contains_key(accounts, lastTx.client)
        /\ accounts[lastTx.client] = AccountNew(lastTx.client)
        /\ result = InsufficientFunds
        /\ ~contains_key(transactions, lastTx.tx)

HasLongFraction(s) ==
    /\ Len(split(s)) = 2
    /\ Len(split(s)[2]) > DECIMAL_DIGITS
    /\ \A i \in 1..Len(split(s)[2]) : is_digit(split(s)[2][i])

\* The text with its fraction cut to its first DECIMAL_DIGITS digits.
FirstFourDigits(s) ==
    split(s)[1] \o <<".">> \o SubSeq(split(s)[2], 1, DECIMAL_DIGITS)

\* C24: parsing the text that Display wrote for a value built by new or
\* from_str gives that value again; and a text with more than four fractional
\* digits parses to what its first four fractional digits parse to.
C24_TextRoundTrip ==
    /\ curParsed # NotParsed => curParsed = curValue
    /\ (curCall.fn = "from_str" /\ HasLongFraction(curCall.s)) =>
           curValue = from_str(FirstFourDigits(curCall.s), curCall.checks)

\* C24 witness: a text whose fifth fractional digit is 9 was parsed without
\* rounding to a value with units and a fraction below 0.1, which was written
\* and parsed again.
C24_Witness ==
    /\ curCall.fn = "from_str"
    /\ HasLongFraction(curCall.s)
    /\ split(curCall.s)[2][DECIMAL_DIGITS + 1] = "9"
    /\ curValue = CurrencyOk(UNIT_IN_DECIMALS + 1)
    /\ curText = Some(<<"1", ".", "0", "0", "0", "1">>)
    /\ curParsed = curValue

\* The sum of the amounts of the records of txs whose tx is in the set ids.
RECURSIVE SumAmounts(_, _)
SumAmounts(txs, ids) ==
    IF ids = {} THEN 0
    ELSE LET id == CHOOSE x \in ids : TRUE IN
         txs[id].amount + SumAmounts(txs, ids \ {id})

\* The deposits of client c that are disputed now.
DisputedDepositsOf(c) ==
    {tx \in DOMAIN transactions :
        IsDisputedDeposit(transactions, tx) /\ transactions[tx].client = c}

\* The last call was a Resolve or Chargeback of a disputed deposit.
ClosedDispute ==
    /\ lastTx.kind \in {"Resolve", "Chargeback"}
    /\ IsDisputedDeposit(prevTransactions, lastTx.tx)

\* C25: each account's held is the sum of the amounts of its client's
\* deposits that are disputed now; and no Resolve or Chargeback of a disputed
\* deposit finds held below the deposit's amount (release and chargeback
\* return neither InsufficientHeldFunds nor the Overflow of held - amount).
C25_HeldIsSumOfDisputed ==
    /\ \A c \in DOMAIN accounts :
           accounts[c].held = SumAmounts(transactions, DisputedDepositsOf(c))
    /\ ClosedDispute =>
           LET rec == prevTransactions[lastTx.tx] IN
           /\ callResult # InsufficientHeldFunds
           /\ ~prevAccounts[rec.client].locked =>
                  prevAccounts[rec.client].held >= rec.amount

\* The recorded transactions of kind k of client c.
RecordsOf(c, k) ==
    {tx \in DOMAIN transactions :
        transactions[tx].kind = k /\ transactions[tx].client = c}

\* What the accepted transactions of client c leave: its deposits, minus its
\* withdrawals, minus its deposits that were charged back.
FundsOf(c) ==
    SumAmounts(transactions, RecordsOf(c, "Deposit"))
        - SumAmounts(transactions, RecordsOf(c, "Withdrawal"))
        - SumAmounts(transactions, RecordsOf(c, "Deposit") \cap chargedback)

\* C26: for every account, available + held is the sum of the client's
\* accepted deposits minus its accepted withdrawals minus its charged-back
\* deposits.
C26_FundsConserved ==
    \A c \in DOMAIN accounts :
        accounts[c].available + accounts[c].held = FundsOf(c)

\* The deposits of client c on which a Chargeback has succeeded.
ChargedbackOf(c) == {tx \in chargedback : transactions[tx].client = c}

\* C27: an account that is locked when a call starts has the same available
\* and held after it, whatever the call is; and no account has more than one
\* deposit on which a Chargeback succeeded.
C27_LockedIsFrozen ==
    /\ \A c \in DOMAIN prevAccounts :
           prevAccounts[c].locked =>
               /\ contains_key(accounts, c)
               /\ accounts[c].available = prevAccounts[c].available
               /\ accounts[c].held = prevAccounts[c].held
    /\ \A c \in DOMAIN accounts : Cardinality(ChargedbackOf(c)) <= 1

\* C27 witness: a Resolve of a dispute that was open when its account was
\* locked: the amount stays held.
C27_Witness ==
    /\ lastTx.kind = "Resolve"
    /\ IsDisputedDeposit(prevTransactions, lastTx.tx)
    /\ prevTransactions[lastTx.tx].amount > 0
    /\ LET rec == prevTransactions[lastTx.tx] IN
          /\ prevAccounts[rec.client].locked
          /\ prevAccounts[rec.client].held >= rec.amount
          /\ accounts[rec.client].held = prevAccounts[rec.client].held
          /\ ChargedbackOf(rec.client) # {}
    /\ callResult = AccountLocked

====
